---- MODULE Spec2Model ----
(***************************************************************************)
(* Renta: the two real-estate affordability calculators.                   *)
(*   src/script.js          the fuller calculator (eight inputs, local     *)
(*                          storage, negotiation and target-price groups)  *)
(*   src/unnamed/part_000   the simpler calculator (six inputs, debounced) *)
(*                                                                         *)
(* JavaScript numbers are modelled as exact rationals <<n, d>> in lowest   *)
(* terms with d > 0, extended with NaN = <<0,0>>, +Infinity = <<1,0>> and  *)
(* -Infinity = <<-1,0>>.  Rounding of IEEE doubles is not modelled.        *)
(* Strings held by input fields are sequences of one-character strings.    *)
(***************************************************************************)
EXTENDS Integers, Sequences, FiniteSets, TLC

----------------------------------------------------------------------------
(* Numbers *)

Abs(i) == IF i < 0 THEN -i ELSE i

Sgn(i) == IF i < 0 THEN -1 ELSE IF i > 0 THEN 1 ELSE 0

RECURSIVE GCD(_, _)
GCD(a, b) == IF b = 0 THEN a ELSE GCD(b, a % b)

\* the rational n/d in lowest terms, d # 0
Norm(n, d) ==
    LET g == GCD(Abs(n), Abs(d))
        s == IF d < 0 THEN -1 ELSE 1
    IN  <<(s * n) \div g, (s * d) \div g>>

NaN == <<0, 0>>
PosInf == <<1, 0>>
NegInf == <<-1, 0>>
Num(i) == <<i, 1>>
Zero == <<0, 1>>

\* isNaN(x)
IsNaN(x) == x = NaN
IsInf(x) == x[2] = 0 /\ x[1] # 0
IsFin(x) == x[2] # 0
NSign(x) == Sgn(x[1])

Neg(x) == <<-x[1], x[2]>>

\* a + b
Add(a, b) ==
    IF IsNaN(a) \/ IsNaN(b) THEN NaN
    ELSE IF IsInf(a) /\ IsInf(b) THEN (IF a = b THEN a ELSE NaN)
    ELSE IF IsInf(a) THEN a
    ELSE IF IsInf(b) THEN b
    ELSE Norm(a[1] * b[2] + b[1] * a[2], a[2] * b[2])

\* a - b
Sub(a, b) == Add(a, Neg(b))

\* a * b
Mul(a, b) ==
    IF IsNaN(a) \/ IsNaN(b) THEN NaN
    ELSE IF IsInf(a) \/ IsInf(b)
         THEN (IF NSign(a) * NSign(b) = 0 THEN NaN ELSE <<NSign(a) * NSign(b), 0>>)
    ELSE Norm(a[1] * b[1], a[2] * b[2])

\* a / b (no value of the model is a negative zero)
Div(a, b) ==
    IF IsNaN(a) \/ IsNaN(b) THEN NaN
    ELSE IF IsInf(a) THEN (IF IsInf(b) THEN NaN
                           ELSE <<NSign(a) * (IF NSign(b) < 0 THEN -1 ELSE 1), 0>>)
    ELSE IF IsInf(b) THEN Zero
    ELSE IF b[1] = 0 THEN (IF a[1] = 0 THEN NaN ELSE <<NSign(a), 0>>)
    ELSE Norm(a[1] * b[2], a[2] * b[1])

\* a < b, a <= b, a > b, a >= b: every comparison with NaN is false
Lt(a, b) ==
    /\ ~IsNaN(a) /\ ~IsNaN(b)
    /\ IF IsInf(a) \/ IsInf(b)
       THEN a # b /\ (a = NegInf \/ b = PosInf)
       ELSE a[1] * b[2] < b[1] * a[2]
Le(a, b) == ~IsNaN(a) /\ ~IsNaN(b) /\ (a = b \/ Lt(a, b))
Gt(a, b) == Lt(b, a)
Ge(a, b) == Le(b, a)

\* Math.max(0, x)
Max0(x) == IF IsNaN(x) THEN NaN ELSE IF Lt(x, Zero) THEN Zero ELSE x

\* x || 0
OrZero(x) == IF IsNaN(x) \/ x = Zero THEN Zero ELSE x

RECURSIVE PowNat(_, _)
PowNat(x, k) == IF k = 0 THEN Num(1) ELSE Mul(x, PowNat(x, k - 1))

\* Math.pow(x, e) for a finite base and an integral exponent e
Pow(x, e) ==
    CASE IsFin(x) /\ IsFin(e) /\ e[2] = 1 /\ e[1] >= 0 -> PowNat(x, e[1])
      [] IsFin(x) /\ IsFin(e) /\ e[2] = 1 /\ e[1] < 0 -> Div(Num(1), PowNat(x, -e[1]))

----------------------------------------------------------------------------
(* Strings of the input fields, parseFloat, parseInt *)

\* the empty field value
Empty == <<>>

IsDigit(c) == c \in {"0", "1", "2", "3", "4", "5", "6", "7", "8", "9"}

DigitVal(c) ==
    CASE c = "0" -> 0 [] c = "1" -> 1 [] c = "2" -> 2 [] c = "3" -> 3
      [] c = "4" -> 4 [] c = "5" -> 5 [] c = "6" -> 6 [] c = "7" -> 7
      [] c = "8" -> 8 [] c = "9" -> 9

\* the number of digits of s from position i on
RECURSIVE DigitRun(_, _)
DigitRun(s, i) ==
    IF i <= Len(s) /\ IsDigit(s[i]) THEN 1 + DigitRun(s, i + 1) ELSE 0

\* the value of the k digits of s that start at position i, after acc
RECURSIVE DigitsVal(_, _, _, _)
DigitsVal(s, i, k, acc) ==
    IF k = 0 THEN acc ELSE DigitsVal(s, i + 1, k - 1, acc * 10 + DigitVal(s[i]))

RECURSIVE Pow10(_)
Pow10(k) == IF k = 0 THEN 1 ELSE 10 * Pow10(k - 1)

\* parseFloat(s): the longest prefix [+-] digits [. digits], NaN without a digit
\* (no field value of the model has an exponent or leading white space)
ParseFloat(s) ==
    LET signed == Len(s) > 0 /\ s[1] \in {"-", "+"}
        minus == Len(s) > 0 /\ s[1] = "-"
        i0 == IF signed THEN 2 ELSE 1
        ni == DigitRun(s, i0)
        dot == i0 + ni <= Len(s) /\ s[i0 + ni] = "."
        nf == IF dot THEN DigitRun(s, i0 + ni + 1) ELSE 0
        iv == DigitsVal(s, i0, ni, 0)
        fv == DigitsVal(s, i0 + ni + 1, nf, 0)
        m == Norm(iv * Pow10(nf) + fv, Pow10(nf))
    IN  IF ni + nf = 0 THEN NaN ELSE IF minus THEN Neg(m) ELSE m

\* parseInt(s, 10): the longest prefix [+-] digits, NaN without a digit
ParseInt(s) ==
    LET signed == Len(s) > 0 /\ s[1] \in {"-", "+"}
        minus == Len(s) > 0 /\ s[1] = "-"
        i0 == IF signed THEN 2 ELSE 1
        ni == DigitRun(s, i0)
        iv == DigitsVal(s, i0, ni, 0)
    IN  IF ni = 0 THEN NaN ELSE IF minus THEN Num(-iv) ELSE Num(iv)

----------------------------------------------------------------------------
(* Text of the output elements *)

\* the text u with a number of dg decimals: its class (finite, NaN, Infinity),
\* its sign and the rounded magnitude in units of 10^-dg
Text(u, dg, k, neg, mag) == [u |-> u, dg |-> dg, k |-> k, neg |-> neg, mag |-> mag]

\* the unknown sentinel '...'
Unknown == Text("...", 0, "", FALSE, 0)

\* the text the page is delivered with, before any script has written to it
HtmlText == Text("html", 0, "", FALSE, 0)

\* |x| rounded to dg decimals, half away from zero, in units of 10^-dg
RoundMag(x, dg) == (2 * Abs(x[1]) * Pow10(dg) + x[2]) \div (2 * x[2])

\* the digits both x.toFixed(dg) and Intl.NumberFormat.format(x) produce
Digits(u, dg, x) ==
    IF IsNaN(x) THEN Text(u, dg, "NaN", FALSE, 0)
    ELSE IF IsInf(x) THEN Text(u, dg, "Infinity", x[1] < 0, 0)
    ELSE Text(u, dg, "fin", x[1] < 0, RoundMag(x, dg))

\* currencyFormatter.format(x)
Currency(x) == Digits("EUR", 2, x)

\* `${x.toFixed(dg).replace('.', ',')} %`
Percent(x, dg) == Digits("%", dg, x)

----------------------------------------------------------------------------
(* src/script.js: the fuller calculator *)

\* const outputElements
OutputNames ==
    {"endettementActuel", "endettementProjetSeul", "endettementTotal", "capacite",
     "capaciteLocative", "mensualite", "capaciteMensualite", "cashflow", "rendement",
     "rendementSouhaite", "prixCible", "reductionCible", "prixAcceptable",
     "reductionMinimum"}

\* const conditionalContainers
ContainerNames ==
    {"locatifResults", "locatifResults2", "locatifResults3", "locatifResults4",
     "reductionResults", "reductionResults2", "itemPrixCible", "itemReductionCible"}

\* const inputIds
inputIds ==
    {"prix", "loyer", "taux", "duree", "salaire", "mensualiteActuel", "endettementMax",
     "loyerPrisEnCompte"}

\* the elements whose className calculate assigns
ClassedNames == {"capaciteMensualite", "cashflow"}

\* localStorage.getItem of a key that was never set
Null == <<"null">>

\* calculate, step 1: the eight parsed values
Parse(inp) ==
    [salaire |-> ParseFloat(inp["salaire"]),
     mensualiteActuel |-> ParseFloat(inp["mensualiteActuel"]),
     prix |-> ParseFloat(inp["prix"]),
     loyer |-> ParseFloat(inp["loyer"]),
     tauxAnnuel |-> ParseFloat(inp["taux"]),
     nbMensualites |-> ParseInt(inp["duree"]),
     endettementMax |-> Div(ParseFloat(inp["endettementMax"]), Num(100)),
     loyerPrisEnCompte |-> Div(ParseFloat(inp["loyerPrisEnCompte"]), Num(100))]

\* the validation with prix < 0 in place of prix <= 0
IsInvalidPrixNegative(p) ==
    \/ IsNaN(p.salaire) \/ IsNaN(p.mensualiteActuel) \/ IsNaN(p.prix) \/ IsNaN(p.loyer)
    \/ IsNaN(p.tauxAnnuel) \/ IsNaN(p.nbMensualites)
    \/ IsNaN(p.endettementMax) \/ IsNaN(p.loyerPrisEnCompte)
    \/ Lt(p.salaire, Zero) \/ Lt(p.mensualiteActuel, Zero) \/ Lt(p.prix, Zero)
    \/ Lt(p.loyer, Zero) \/ Le(p.tauxAnnuel, Zero) \/ Le(p.nbMensualites, Zero)

\* calculate, step 2: the condition of the validation if
IsInvalid(p) ==
    \/ IsNaN(p.salaire) \/ IsNaN(p.mensualiteActuel) \/ IsNaN(p.prix) \/ IsNaN(p.loyer)
    \/ IsNaN(p.tauxAnnuel) \/ IsNaN(p.nbMensualites)
    \/ IsNaN(p.endettementMax) \/ IsNaN(p.loyerPrisEnCompte)
    \/ Lt(p.salaire, Zero) \/ Lt(p.mensualiteActuel, Zero) \/ Le(p.prix, Zero)
    \/ Lt(p.loyer, Zero) \/ Le(p.tauxAnnuel, Zero) \/ Le(p.nbMensualites, Zero)

\* const tauxMensuel
TauxMensuel(tauxAnnuel) == Div(Div(tauxAnnuel, Num(100)), Num(12))

\* const facteurPMT
FacteurPMT(tauxMensuel, nbMensualites) ==
    Div(Mul(tauxMensuel, Pow(Add(Num(1), tauxMensuel), nbMensualites)),
        Sub(Pow(Add(Num(1), tauxMensuel), nbMensualites), Num(1)))

\* const part1 and const rendementSouhaite
RendementSouhaite(endettementMax, tauxMensuel, nbMensualites) ==
    LET part1 == Div(Sub(Num(1), Pow(Add(Num(1), tauxMensuel), Neg(nbMensualites))),
                     tauxMensuel)
    IN  Mul(Div(Num(12), Mul(endettementMax, part1)), Num(100))

\* const prixCibleRendement
PrixCibleRendement(rendementSouhaite, loyer) ==
    IF Gt(rendementSouhaite, Zero) /\ Gt(loyer, Zero)
    THEN Div(Mul(loyer, Num(12)), Div(rendementSouhaite, Num(100)))
    ELSE Zero

\* let prixAcceptable
PrixAcceptable(mensualiteCible, facteurPMT) ==
    IF Gt(mensualiteCible, Zero) /\ Gt(facteurPMT, Zero)
    THEN Div(mensualiteCible, facteurPMT)
    ELSE Zero

\* loyer >= 0 in place of loyer > 0
IsRentalProjectAtZero(loyer) == Ge(loyer, Zero)

\* const isRentalProject
IsRentalProject(loyer) == Gt(loyer, Zero)

\* const shouldShowTargetPrice
ShouldShowTargetPrice(prix, prixCibleRendement) == Ge(prix, prixCibleRendement)

\* prix >= prixAcceptable in place of prix > prixAcceptable
IsNegotiationRequiredAtPrice(prix, prixAcceptable) == Ge(prix, prixAcceptable)

\* const isNegotiationRequired
IsNegotiationRequired(prix, prixAcceptable) == Gt(prix, prixAcceptable)

\* calculate, steps 3 and 4: every value computed from valid parsed inputs
Metrics(p) ==
    LET tauxMensuel == TauxMensuel(p.tauxAnnuel)
        facteurPMT == FacteurPMT(tauxMensuel, p.nbMensualites)
        mensualiteProjet == Mul(p.prix, facteurPMT)
        capaciteEndettement == Mul(p.endettementMax, p.salaire)
        rendementSouhaite == RendementSouhaite(p.endettementMax, tauxMensuel, p.nbMensualites)
        prixCibleRendement == PrixCibleRendement(rendementSouhaite, p.loyer)
        capaciteEmpruntLocative == Mul(p.endettementMax, Mul(p.loyerPrisEnCompte, p.loyer))
        denominateurDette == Add(p.loyer, p.salaire)
        mensualiteCible == Sub(Mul(p.endettementMax, denominateurDette), p.mensualiteActuel)
        prixAcceptable == PrixAcceptable(mensualiteCible, facteurPMT)
    IN  [tauxMensuel |-> tauxMensuel,
         endettementActuelTaux |->
             IF Gt(p.salaire, Zero) THEN Div(p.mensualiteActuel, p.salaire) ELSE Zero,
         capaciteEndettement |-> capaciteEndettement,
         facteurPMT |-> facteurPMT,
         mensualiteProjet |-> mensualiteProjet,
         cashflow |-> Sub(p.loyer, mensualiteProjet),
         endettementProjetSeulTaux |->
             IF Gt(p.loyer, Zero) THEN Div(mensualiteProjet, p.loyer) ELSE Zero,
         rendementBrut |->
             IF Gt(p.prix, Zero) /\ Gt(p.loyer, Zero)
             THEN Mul(Div(Mul(p.loyer, Num(12)), p.prix), Num(100))
             ELSE Zero,
         rendementSouhaite |-> rendementSouhaite,
         prixCibleRendement |-> prixCibleRendement,
         reductionCible |->
             IF Gt(p.prix, Zero)
             THEN Mul(Div(Sub(p.prix, prixCibleRendement), p.prix), Num(100))
             ELSE Zero,
         capaciteEmpruntLocative |-> capaciteEmpruntLocative,
         capaciteMensualite |->
             Sub(Sub(Add(capaciteEndettement, capaciteEmpruntLocative), mensualiteProjet),
                 p.mensualiteActuel),
         endettementTotalTaux |->
             IF Gt(denominateurDette, Zero)
             THEN Div(Add(mensualiteProjet, p.mensualiteActuel), denominateurDette)
             ELSE Zero,
         mensualiteCible |-> mensualiteCible,
         prixAcceptable |-> prixAcceptable,
         reductionMinimum |->
             IF Gt(p.prix, Zero)
             THEN Mul(Div(Sub(p.prix, prixAcceptable), p.prix), Num(100))
             ELSE Zero,
         isRentalProject |-> IsRentalProject(p.loyer),
         shouldShowTargetPrice |-> ShouldShowTargetPrice(p.prix, prixCibleRendement),
         isNegotiationRequired |-> IsNegotiationRequired(p.prix, prixAcceptable)]

\* `value ${x >= 0 ? 'cashflow-positive' : 'cashflow-negative'}`
SignClass(x) == IF Ge(x, Zero) THEN "value cashflow-positive" ELSE "value cashflow-negative"

\* saveData over a list of ids that lacks loyerPrisEnCompte
SaveDataSevenIds(inp) ==
    [id \in inputIds |-> IF id = "loyerPrisEnCompte" THEN Null ELSE inp[id]]

\* saveData: every input's value under its id
SaveData(inp) == [id \in inputIds |-> inp[id]]

\* loadData over a list of ids that lacks prix
LoadDataSevenIds(inp, st) ==
    [id \in inputIds |-> IF st[id] # Null /\ id # "prix" THEN st[id] ELSE inp[id]]

\* loadData: every saved value into its input, the others keep their value
LoadData(inp, st) == [id \in inputIds |-> IF st[id] # Null THEN st[id] ELSE inp[id]]

\* calculate, the branch of the validation if: the page after an Invalid cycle
InvalidPage(pg) ==
    [err |-> "block",
     out |-> [o \in OutputNames |-> Unknown],
     disp |-> [c \in ContainerNames |-> "none"],
     cls |-> pg.cls,
     store |-> pg.store,
     thrown |-> "none"]

\* the rental branch of step 5.B, for the outputs
RentalOutputs(o, out, m) ==
    CASE o = "cashflow" -> Currency(m.cashflow)
      [] o = "endettementProjetSeul" -> Percent(Mul(m.endettementProjetSeulTaux, Num(100)), 1)
      [] o = "rendement" -> Percent(m.rendementBrut, 2)
      [] o = "rendementSouhaite" -> Percent(m.rendementSouhaite, 2)
      [] o = "capaciteLocative" -> Currency(m.capaciteEmpruntLocative)
      [] o = "prixCible" /\ m.shouldShowTargetPrice -> Currency(m.prixCibleRendement)
      [] o = "reductionCible" /\ m.shouldShowTargetPrice ->
             Percent(Max0(m.reductionCible), 1)
      [] OTHER -> out[o]

\* step 5.C, for the outputs
NegotiationOutputs(o, out, m) ==
    CASE o = "endettementTotal" -> Percent(Mul(m.endettementTotalTaux, Num(100)), 1)
      [] o = "prixAcceptable" -> Currency(m.prixAcceptable)
      [] o = "reductionMinimum" -> Percent(Max0(m.reductionMinimum), 1)
      [] OTHER -> out[o]

\* ValidOutput with the negotiation outputs written under the rental guard
ValidOutputRentalGuard(o, out, m) ==
    CASE o = "mensualite" -> Currency(m.mensualiteProjet)
      [] o = "endettementActuel" -> Percent(Mul(m.endettementActuelTaux, Num(100)), 1)
      [] o = "capacite" -> Currency(Max0(m.capaciteEndettement))
      [] o = "capaciteMensualite" -> Currency(m.capaciteMensualite)
      [] o \in {"cashflow", "endettementProjetSeul", "rendement", "rendementSouhaite",
                "capaciteLocative", "prixCible", "reductionCible"} ->
             IF m.isRentalProject THEN RentalOutputs(o, out, m) ELSE out[o]
      [] o \in {"endettementTotal", "prixAcceptable", "reductionMinimum"} ->
             IF m.isRentalProject /\ m.isNegotiationRequired
             THEN NegotiationOutputs(o, out, m)
             ELSE out[o]

\* calculate, step 5: the text of output o after a Valid cycle
ValidOutput(o, out, m) ==
    CASE o = "mensualite" -> Currency(m.mensualiteProjet)
      [] o = "endettementActuel" -> Percent(Mul(m.endettementActuelTaux, Num(100)), 1)
      [] o = "capacite" -> Currency(Max0(m.capaciteEndettement))
      [] o = "capaciteMensualite" -> Currency(m.capaciteMensualite)
      [] o \in {"cashflow", "endettementProjetSeul", "rendement", "rendementSouhaite",
                "capaciteLocative", "prixCible", "reductionCible"} ->
             IF m.isRentalProject THEN RentalOutputs(o, out, m) ELSE out[o]
      [] o \in {"endettementTotal", "prixAcceptable", "reductionMinimum"} ->
             IF m.isNegotiationRequired THEN NegotiationOutputs(o, out, m) ELSE out[o]

\* calculate, step 5: the display of container c after a Valid cycle
ValidDisplay(c, disp, m) ==
    CASE c \in {"locatifResults", "locatifResults2", "locatifResults3", "locatifResults4"} ->
             IF m.isRentalProject THEN "block" ELSE "none"
      [] c \in {"itemPrixCible", "itemReductionCible"} ->
             IF m.isRentalProject
             THEN (IF m.shouldShowTargetPrice THEN "flex" ELSE "none")
             ELSE disp[c]
      [] c \in {"reductionResults", "reductionResults2"} ->
             IF m.isNegotiationRequired THEN "block" ELSE "none"

\* calculate, step 5: the className of element e after a Valid cycle
ValidClass(e, cls, m) ==
    CASE e = "capaciteMensualite" -> SignClass(m.capaciteMensualite)
      [] e = "cashflow" -> IF m.isRentalProject THEN SignClass(m.cashflow) ELSE cls[e]

\* calculate, past the validation: the page after a Valid cycle, saveData included
ValidPage(pg, inp, m) ==
    [err |-> "none",
     out |-> [o \in OutputNames |-> ValidOutput(o, pg.out, m)],
     disp |-> [c \in ContainerNames |-> ValidDisplay(c, pg.disp, m)],
     cls |-> [e \in ClassedNames |-> ValidClass(e, pg.cls, m)],
     store |-> SaveData(inp),
     thrown |-> "none"]

\* calculate(): the page and the store after one recomputation on inputs inp
\* (p and m are bound by a quantifier so that each is evaluated once)
Calculate(pg, inp) ==
    CHOOSE r \in
        UNION {IF IsInvalid(p)
               THEN {InvalidPage(pg)}
               ELSE {ValidPage(pg, inp, m) : m \in {Metrics(p)}} : p \in {Parse(inp)}} : TRUE

----------------------------------------------------------------------------
(* src/unnamed/part_000: the simpler calculator *)

\* const outputElements
SimpleOutputNames ==
    {"endettementPropre", "endettementTotal", "capaciteEmpruntPropre",
     "capaciteEmpruntLocative", "mensualiteProjet", "capaciteMensualite", "cashflowBrut",
     "rendementBrut", "rendementCible", "prixCible"}

\* const conditionalContainers
SimpleContainerNames ==
    {"locatifResults", "locatifResults2", "locatifResults3", "locatifResults4",
     "situationResults"}

\* const inputElements
SimpleInputNames ==
    {"prix", "loyer", "tauxAnnuel", "nbMensualites", "salaireActuel", "mensualitesActuelles"}

\* calculate, step 1: the six parsed values
SimpleParse(inp) ==
    [prix |-> ParseFloat(inp["prix"]),
     loyer |-> ParseFloat(inp["loyer"]),
     tauxAnnuel |-> ParseFloat(inp["tauxAnnuel"]),
     nbMensualites |-> ParseFloat(inp["nbMensualites"]),
     salaireActuel |-> ParseFloat(inp["salaireActuel"]),
     mensualitesActuelles |-> ParseFloat(inp["mensualitesActuelles"])]

\* the condition of the initial validation check
SimpleIsInvalid(p) ==
    \/ IsNaN(p.prix) \/ Le(p.prix, Zero)
    \/ IsNaN(p.tauxAnnuel) \/ Le(p.tauxAnnuel, Zero)
    \/ IsNaN(p.nbMensualites) \/ Le(p.nbMensualites, Zero)

\* the annuity formula with the exponent dureeMois in place of -dureeMois
calculateMensualiteProjetExponent(capital, tauxAnnuel, dureeMois) ==
    IF tauxAnnuel = Zero THEN Div(capital, dureeMois)
    ELSE LET tauxMensuel == Div(tauxAnnuel, Num(1200))
         IN  Div(Mul(capital, tauxMensuel),
                 Sub(Num(1), Pow(Add(Num(1), tauxMensuel), dureeMois)))

\* function calculateMensualiteProjet
calculateMensualiteProjet(capital, tauxAnnuel, dureeMois) ==
    IF tauxAnnuel = Zero THEN Div(capital, dureeMois)
    ELSE LET tauxMensuel == Div(tauxAnnuel, Num(1200))
         IN  Div(Mul(capital, tauxMensuel),
                 Sub(Num(1), Pow(Add(Num(1), tauxMensuel), Neg(dureeMois))))

\* debounce without clearTimeout
DebounceNoClear(pending, id, newId, delay) ==
    [timers |-> pending \cup {[id |-> newId, left |-> delay]},
     timeoutId |-> newId]

\* function debounce, the returned function: the pending timers and timeoutId
\* after one call, newId being the handle setTimeout returns
Debounce(pending, id, newId, delay) ==
    [timers |-> {t \in pending : t.id # id} \cup {[id |-> newId, left |-> delay]},
     timeoutId |-> newId]

\* function calculateCapaciteEmprunt
calculateCapaciteEmprunt(mensualiteMax, mensualitesActuelles, loyer, tauxAnnuel, dureeMois) ==
    LET tauxMensuel == Div(tauxAnnuel, Num(1200))
        mensualiteEmpruntMax ==
            Max0(Add(Sub(mensualiteMax, mensualitesActuelles), Mul(loyer, <<7, 10>>)))
    IN  Mul(Div(mensualiteEmpruntMax, tauxMensuel),
            Sub(Num(1), Pow(Add(Num(1), tauxMensuel), Neg(dureeMois))))

\* Math.max(1, x)
Max1(x) == IF IsNaN(x) THEN NaN ELSE IF Lt(x, Num(1)) THEN Num(1) ELSE x

\* the check of salaireActuel alone
IsSituationDataValidSalaire(p) == ~IsNaN(p.salaireActuel)

\* const isSituationDataValid
IsSituationDataValid(p) == ~IsNaN(p.salaireActuel) /\ ~IsNaN(p.mensualitesActuelles)

\* calculate, step 2: every value computed once the primary inputs are valid
SimpleMetrics(p) ==
    LET mensualiteProjet == calculateMensualiteProjet(p.prix, p.tauxAnnuel, p.nbMensualites)
        tauxEndettementAcceptable == <<35, 100>>
        mensualiteMax == Mul(OrZero(p.salaireActuel), tauxEndettementAcceptable)
        mensualiteRestante == Max0(Sub(mensualiteMax, OrZero(p.mensualitesActuelles)))
        isRentalProject == Gt(p.loyer, Zero)
        rendementObjectif == <<5, 100>>
    IN  [mensualiteProjet |-> mensualiteProjet,
         mensualiteMax |-> mensualiteMax,
         mensualiteRestante |-> mensualiteRestante,
         endettementPropreTaux |-> Div(mensualiteProjet, Max1(OrZero(p.salaireActuel))),
         isRentalProject |-> isRentalProject,
         capaciteEmpruntLocative |->
             IF isRentalProject
             THEN calculateCapaciteEmprunt(mensualiteMax, p.mensualitesActuelles, p.loyer,
                                           p.tauxAnnuel, p.nbMensualites)
             ELSE Zero,
         cashflowBrut |-> IF isRentalProject THEN Sub(p.loyer, mensualiteProjet) ELSE Zero,
         rendementBrut |->
             IF isRentalProject THEN Div(Mul(p.loyer, Num(12)), p.prix) ELSE Zero,
         prixCible |->
             IF isRentalProject THEN Div(Mul(p.loyer, Num(12)), rendementObjectif) ELSE Zero,
         isSituationDataValid |-> IsSituationDataValid(p),
         endettementTotalTaux |->
             Div(Add(mensualiteProjet, p.mensualitesActuelles), p.salaireActuel)]

\* the branch of the initial validation check: the page after an Invalid cycle
SimpleInvalidPage(pg) ==
    [err |-> "block",
     out |-> [o \in SimpleOutputNames |-> Unknown],
     disp |-> [c \in SimpleContainerNames |->
                  IF c = "situationResults" THEN "block" ELSE "none"],
     thrown |-> "none"]

\* the output statements of steps D and E that run before the one that reads
\* rendementObjectif, a const of the if block above it, outside that block
SimpleOutput(o, out, m) ==
    CASE o \in {"endettementPropre", "endettementTotal"} /\ ~m.isSituationDataValid ->
             Unknown
      [] o = "endettementPropre" /\ m.isSituationDataValid ->
             Percent(Mul(m.endettementPropreTaux, Num(100)), 1)
      [] o = "endettementTotal" /\ m.isSituationDataValid ->
             Percent(Mul(m.endettementTotalTaux, Num(100)), 1)
      [] o = "capaciteEmpruntPropre" -> Currency(m.mensualiteRestante)
      [] o = "capaciteEmpruntLocative" -> Currency(m.capaciteEmpruntLocative)
      [] o = "mensualiteProjet" -> Currency(m.mensualiteProjet)
      [] o = "capaciteMensualite" -> Currency(Sub(m.mensualiteRestante, m.mensualiteProjet))
      [] o = "cashflowBrut" -> Currency(m.cashflowBrut)
      [] o = "rendementBrut" -> Percent(Mul(m.rendementBrut, Num(100)), 1)
      [] o \in {"rendementCible", "prixCible"} -> out[o]

\* step C and D: the display of container c
SimpleDisplay(c, m) ==
    IF c = "situationResults" THEN "block"
    ELSE IF m.isRentalProject THEN "block" ELSE "none"

\* what evaluating the free identifier rendementObjectif in step E raises
RendementObjectifLookup == "ReferenceError"

\* calculate, past the validation: the page when the cycle ends
SimpleValidPage(pg, m) ==
    [err |-> "none",
     out |-> [o \in SimpleOutputNames |-> SimpleOutput(o, pg.out, m)],
     disp |-> [c \in SimpleContainerNames |-> SimpleDisplay(c, m)],
     thrown |-> RendementObjectifLookup]

\* calculate(): the page after one recomputation on inputs inp
\* (p and m are bound by a quantifier so that each is evaluated once)
SimpleCalculate(pg, inp) ==
    CHOOSE r \in
        UNION {IF SimpleIsInvalid(p)
               THEN {SimpleInvalidPage(pg)}
               ELSE {SimpleValidPage(pg, m) : m \in {SimpleMetrics(p)}} :
               p \in {SimpleParse(inp)}} : TRUE

----------------------------------------------------------------------------
(* The two pages as state machines *)

VARIABLES
    script,        \* the script of the open page: "script.js" or "part_000"
    inputs,        \* id -> the value of the input field
    storage,       \* id -> localStorage's value, Null when never set
    errorDisplay,  \* errorElement.style.display
    outText,       \* output name -> textContent
    display,       \* container name -> style.display
    className,     \* element name -> className
    thrown,        \* what the last run of calculate raised, "none" when it returned
    timers,        \* the pending timers: [id, left], left the time to their due time
    timeoutId,     \* debounce's timeoutId, 0 for undefined
    sinceInput,    \* the time since the last input event, capped at Delay
    events,        \* the number of input events so far, where runs are bounded
    runsSince,     \* the runs of calculate since the last input event
    readInputs,    \* the input values the last run of calculate read
    last,          \* the kind of the last step: "boot", "input", "reload", "tick", "timer"
    pmt            \* the monthly-payment functions on their own: inputs and results

vars ==
    <<script, inputs, storage, errorDisplay, outText, display, className, thrown, timers,
      timeoutId, sinceInput, events, runsSince, readInputs, last, pmt>>

\* debounce(calculate, 300)
Delay == 300

\* the step of the clock
TickMs == 100

\* the input events of a bounded run
MaxEvents == 3

\* the bounds of the inputs of the monthly-payment functions
MaxCapital == 2
MaxRate == 2
MaxTerm == 4

\* the field values the model types into each input of the fuller page
FieldValues(id) ==
    CASE id = "prix" -> {<<"0">>, <<"2">>, <<"4">>}
      [] id = "loyer" -> {<<"0">>, <<"4">>}
      [] id = "taux" -> {Empty, <<"1", "2", "0", "0">>}
      [] id = "duree" -> {<<"1">>, <<"2">>}
      [] id = "salaire" -> {<<"0">>, <<"4">>}
      [] id = "mensualiteActuel" -> {<<"0">>, <<"1">>}
      [] id = "endettementMax" -> {<<"0">>, <<"1", "0", "0">>}
      [] id = "loyerPrisEnCompte" -> {<<"7", "0">>}

\* more field values, for the runs of a bounded number of input events
WideValues(id) ==
    FieldValues(id) \cup
    CASE id = "prix" -> {Empty, <<"-", "1">>}
      [] id = "loyer" -> {Empty, <<"-", "1">>}
      [] id = "taux" -> {<<"0">>, <<"-", "1">>}
      [] id = "duree" -> {Empty, <<"0">>, <<"-", "1">>, <<"0", ".", "5">>, <<"1", ".", "5">>}
      [] id = "salaire" -> {Empty, <<"-", "1">>}
      [] id = "mensualiteActuel" -> {Empty, <<"-", "1">>}
      [] id = "endettementMax" -> {Empty, <<"-", "1">>}
      [] id = "loyerPrisEnCompte" -> {Empty, <<"-", "1">>, <<"0">>}

\* the field values the model types into each input of the simpler page
SimpleFieldValues(id) ==
    CASE id = "prix" -> {<<"0">>, <<"4">>}
      [] id = "loyer" -> {<<"0">>, <<"4">>}
      [] id = "tauxAnnuel" -> {<<"1", "2", "0", "0">>}
      [] id = "nbMensualites" -> {<<"1">>, <<"2">>}
      [] id = "salaireActuel" -> {Empty, <<"0">>, <<"4">>}
      [] id = "mensualitesActuelles" -> {Empty, <<"1">>}

\* the values the fuller page's markup gives the inputs: none, or a filled-in example
HtmlInputs ==
    {[id \in inputIds |-> Empty],
     [id \in inputIds |->
         CASE id = "prix" -> <<"4">>
           [] id = "loyer" -> <<"4">>
           [] id = "taux" -> <<"1", "2", "0", "0">>
           [] id = "duree" -> <<"1">>
           [] id = "salaire" -> <<"4">>
           [] id = "mensualiteActuel" -> <<"0">>
           [] id = "endettementMax" -> <<"1", "0", "0">>
           [] id = "loyerPrisEnCompte" -> <<"7", "0">>]}

\* the values the simpler page's markup gives the inputs
SimpleHtmlInputs ==
    {[id \in SimpleInputNames |-> Empty],
     [id \in SimpleInputNames |->
         CASE id = "prix" -> <<"4">>
           [] id = "loyer" -> <<"4">>
           [] id = "tauxAnnuel" -> <<"1", "2", "0", "0">>
           [] id = "nbMensualites" -> <<"1">>
           [] id = "salaireActuel" -> <<"4">>
           [] id = "mensualitesActuelles" -> <<"1">>]}

EmptyStore == [id \in inputIds |-> Null]

\* the fuller page as delivered, over the store st
HtmlPage(st) ==
    [err |-> "",
     out |-> [o \in OutputNames |-> HtmlText],
     disp |-> [c \in ContainerNames |-> ""],
     cls |-> [e \in ClassedNames |-> "value"],
     store |-> st,
     thrown |-> "none"]

\* the simpler page as delivered
SimpleHtmlPage ==
    [err |-> "",
     out |-> [o \in SimpleOutputNames |-> HtmlText],
     disp |-> [c \in SimpleContainerNames |-> ""],
     thrown |-> "none"]

Page ==
    [err |-> errorDisplay, out |-> outText, disp |-> display, cls |-> className,
     store |-> storage, thrown |-> thrown]

SetPage(pg) ==
    /\ errorDisplay' = pg.err
    /\ outText' = pg.out
    /\ display' = pg.disp
    /\ className' = pg.cls
    /\ storage' = pg.store
    /\ thrown' = pg.thrown

SetSimplePage(pg) ==
    /\ errorDisplay' = pg.err
    /\ outText' = pg.out
    /\ display' = pg.disp
    /\ thrown' = pg.thrown
    /\ UNCHANGED <<className, storage>>

\* no timer, no input event, no run of calculate yet
NoEvents ==
    /\ timers = {}
    /\ timeoutId = 0
    /\ sinceInput = Delay
    /\ events = 0
    /\ runsSince = 0

\* the monthly payment of capital at tauxAnnuel over n months, as each script
\* computes it
PmtSimple(capital, tauxAnnuel, n) == calculateMensualiteProjet(capital, tauxAnnuel, n)

PmtFull(prix, tauxAnnuel, n) == Mul(prix, FacteurPMT(TauxMensuel(tauxAnnuel), n))

PmtInputs ==
    [capital : {Num(c) : c \in 1..MaxCapital},
     tauxAnnuel : {Norm(1200 * a, b) : a \in 1..MaxRate, b \in 1..MaxRate},
     n1 : {Num(n) : n \in 1..MaxTerm},
     n2 : {Num(n) : n \in 1..MaxTerm}]

PmtRecord(phase, in, s1, s2, f1, f2) ==
    [phase |-> phase, in |-> in, simple1 |-> s1, simple2 |-> s2, full1 |-> f1,
     full2 |-> f2]

NoPmt == pmt = PmtRecord("off", <<>>, NaN, NaN, NaN, NaN)

\* script.js has run to its end: loadData(); calculate(); on the page as delivered
InitFull ==
    /\ script = "script.js"
    /\ \E html \in HtmlInputs :
        /\ inputs = LoadData(html, EmptyStore)
        /\ \E pg \in {Calculate(HtmlPage(EmptyStore), inputs)} :
               /\ errorDisplay = pg.err
               /\ outText = pg.out
               /\ display = pg.disp
               /\ className = pg.cls
               /\ storage = pg.store
               /\ thrown = pg.thrown
    /\ readInputs = inputs
    /\ last = "boot"
    /\ NoEvents
    /\ NoPmt

\* part_000 has run to its end: the listeners are bound, nothing is computed
FreshSimple ==
    /\ script = "part_000"
    /\ inputs \in SimpleHtmlInputs
    /\ errorDisplay = SimpleHtmlPage.err
    /\ outText = SimpleHtmlPage.out
    /\ display = SimpleHtmlPage.disp
    /\ thrown = SimpleHtmlPage.thrown
    /\ className = [e \in ClassedNames |-> "value"]
    /\ storage = EmptyStore
    /\ readInputs = inputs
    /\ last = "boot"
    /\ NoEvents

InitSimple == FreshSimple /\ NoPmt

\* the payment functions on their own: an input is drawn
InitPmt ==
    /\ FreshSimple
    /\ \E in \in PmtInputs : pmt = PmtRecord("in", in, NaN, NaN, NaN, NaN)

\* both scripts' payment for both terms
PmtCompute ==
    /\ pmt.phase = "in"
    /\ pmt' = PmtRecord("out", pmt.in,
                        PmtSimple(pmt.in.capital, pmt.in.tauxAnnuel, pmt.in.n1),
                        PmtSimple(pmt.in.capital, pmt.in.tauxAnnuel, pmt.in.n2),
                        PmtFull(pmt.in.capital, pmt.in.tauxAnnuel, pmt.in.n1),
                        PmtFull(pmt.in.capital, pmt.in.tauxAnnuel, pmt.in.n2))
    /\ UNCHANGED <<script, inputs, storage, errorDisplay, outText, display, className,
                   thrown, timers, timeoutId, sinceInput, events, runsSince, readInputs,
                   last>>

\* script.js: an 'input' event on field id, whose value is now v; the listener
\* is calculate
OnInput(id, v) ==
    /\ script = "script.js"
    /\ inputs' = [inputs EXCEPT ![id] = v]
    /\ \E pg \in {Calculate(Page, inputs')} : SetPage(pg)
    /\ readInputs' = inputs'
    /\ last' = "input"
    /\ UNCHANGED <<script, timers, timeoutId, sinceInput, events, runsSince, pmt>>

\* script.js: the page is loaded again, a new session over the same localStorage
Reload ==
    /\ script = "script.js"
    /\ \E html \in HtmlInputs :
        /\ inputs' = LoadData(html, storage)
        /\ \E pg \in {Calculate(HtmlPage(storage), inputs')} : SetPage(pg)
    /\ readInputs' = inputs'
    /\ last' = "reload"
    /\ UNCHANGED <<script, timers, timeoutId, sinceInput, events, runsSince, pmt>>

\* script.js: an input event of a bounded run, over the wider field values
OnInputWide(id, v) ==
    /\ script = "script.js"
    /\ events < MaxEvents
    /\ events' = events + 1
    /\ inputs' = [inputs EXCEPT ![id] = v]
    /\ \E pg \in {Calculate(Page, inputs')} : SetPage(pg)
    /\ readInputs' = inputs'
    /\ last' = "input"
    /\ UNCHANGED <<script, timers, timeoutId, sinceInput, runsSince, pmt>>

\* part_000: an 'input' event on field id, whose value is now v; the listener
\* is debouncedCalculate
OnSimpleInput(id, v) ==
    /\ script = "part_000"
    /\ events < MaxEvents
    /\ events' = events + 1
    /\ inputs' = [inputs EXCEPT ![id] = v]
    /\ \E d \in {Debounce(timers, timeoutId, events + 1, Delay)} :
           /\ timers' = d.timers
           /\ timeoutId' = d.timeoutId
    /\ sinceInput' = 0
    /\ runsSince' = 0
    /\ last' = "input"
    /\ UNCHANGED <<script, storage, errorDisplay, outText, display, className, thrown,
                   readInputs, pmt>>

Less(a, b) == IF a > b THEN a - b ELSE 0

\* part_000: TickMs of time pass
Tick ==
    /\ script = "part_000"
    /\ timers' = {[id |-> t.id, left |-> Less(t.left, TickMs)] : t \in timers}
    /\ sinceInput' = Delay - Less(Delay, sinceInput + TickMs)
    /\ last' = "tick"
    /\ UNCHANGED <<script, inputs, storage, errorDisplay, outText, display, className,
                   thrown, timeoutId, events, runsSince, readInputs, pmt>>

\* part_000: the callback of the due timer t runs: func.apply(this, args)
Fire(t) ==
    /\ script = "part_000"
    /\ t \in timers
    /\ t.left = 0
    /\ timers' = timers \ {t}
    /\ \E pg \in {SimpleCalculate(Page, inputs)} : SetSimplePage(pg)
    /\ readInputs' = inputs
    /\ runsSince' = IF runsSince < 2 THEN runsSince + 1 ELSE 2
    /\ last' = "timer"
    /\ UNCHANGED <<script, inputs, timeoutId, sinceInput, events, pmt>>

NextFull ==
    \/ \E id \in inputIds : \E v \in FieldValues(id) : OnInput(id, v)
    \/ Reload

NextSimple ==
    \/ \E id \in SimpleInputNames : \E v \in SimpleFieldValues(id) : OnSimpleInput(id, v)
    \/ Tick
    \/ \E t \in timers : Fire(t)

NextWide ==
    \E id \in inputIds : \E v \in WideValues(id) : OnInputWide(id, v)

\* either page, any sequence of its events
Init == InitFull \/ InitSimple

Next == NextFull \/ NextSimple

Spec == Init /\ [][Next]_vars

\* the fuller page, a bounded number of input events over the wider values
SpecWide == InitFull /\ [][NextWide]_vars

\* the monthly-payment functions on drawn inputs
SpecPmt == InitPmt /\ [][PmtCompute]_vars

\* the simpler page, where time passes and due timers fire
\* part_000: the event loop takes a due timer off its queue; within NextSimple
\* the steps that do so are exactly the Fire(t) steps
Expire == \E t \in timers : t.left = 0 /\ timers' = timers \ {t}

\* time passes, and the event loop runs the callback of a due timer
SpecDebounce ==
    /\ InitSimple
    /\ [][NextSimple]_vars
    /\ WF_vars(Tick)
    /\ WF_timers(Expire)

----------------------------------------------------------------------------
(* Properties *)

FullPage == script = "script.js"

SimplePage == script = "part_000"

\* the fuller page's inputs pass its validation
FullValid == FullPage /\ ~IsInvalid(Parse(inputs))

\* container c is marked visible
MarkedVisible(c) == display[c] \in {"block", "flex"}

\* the text t is a value calculate formatted
Computed(t) == t.u \in {"EUR", "%"}

\* C1's condition on the eight field values
C1_Invalid ==
    LET f(id) == ParseFloat(inputs[id])
        n == ParseInt(inputs["duree"])
    IN  \/ \E id \in inputIds \ {"duree"} : IsNaN(f(id))
        \/ IsNaN(n)
        \/ Lt(f("salaire"), Zero)
        \/ Lt(f("mensualiteActuel"), Zero)
        \/ Lt(f("loyer"), Zero)
        \/ Le(f("prix"), Zero)
        \/ Le(f("taux"), Zero)
        \/ Le(n, Zero)

\* C1: on the fuller page the error indicator is shown exactly when a field does
\* not parse, or income, current debt or rent is negative, or price, rate or
\* term is not positive; then every output is '...' and every conditional
\* container is hidden; otherwise the indicator is hidden and the monthly
\* payment is displayed.
C1_InvalidBlanksPage ==
    FullPage =>
        /\ (errorDisplay = "block") <=> C1_Invalid
        /\ C1_Invalid =>
               /\ \A o \in OutputNames : outText[o] = Unknown
               /\ \A c \in ContainerNames : display[c] = "none"
        /\ ~C1_Invalid => errorDisplay = "none" /\ Computed(outText["mensualite"])

\* C1's case: after a Valid cycle wrote the store, the price is typed as -1, the
\* other fields staying valid, and the page is blank
C1_Witness ==
    /\ FullPage
    /\ last = "input"
    /\ inputs["prix"] = <<"-", "1">>
    /\ ~IsInvalid(Parse([inputs EXCEPT !["prix"] = <<"4">>]))
    /\ storage # EmptyStore
    /\ errorDisplay = "block"
    /\ outText["mensualite"] = Unknown

\* C2 as claimed: no run of calculate raises, and a run of the simpler page on
\* valid inputs writes the target-yield and target-price outputs
C2_RunsToEnd ==
    /\ thrown = "none"
    /\ SimplePage /\ errorDisplay = "none" =>
           Computed(outText["rendementCible"]) /\ Computed(outText["prixCible"])

\* C3: on the fuller page a cycle that shows the error leaves the store as it
\* was and a cycle that hides it stores the eight input values; the store is
\* empty or holds eight values, those of the inputs whenever they are valid.
C3_PersistenceFollowsValidity ==
    /\ [](FullPage =>
              \/ storage = EmptyStore
              \/ /\ \A id \in inputIds : storage[id] # Null
                 /\ errorDisplay = "none" => storage = inputs)
    /\ [][FullPage =>
              /\ errorDisplay' = "block" => storage' = storage
              /\ errorDisplay' = "none" => storage' = inputs']_vars

\* C3's case: an Invalid cycle after a Valid one, the store still filled
C3_Witness ==
    /\ FullPage
    /\ last = "input"
    /\ errorDisplay = "block"
    /\ storage # EmptyStore
    /\ storage # inputs

\* the outputs outside the rental containers
SimpleAlwaysShown ==
    {"endettementPropre", "endettementTotal", "capaciteEmpruntPropre", "mensualiteProjet",
     "capaciteMensualite"}

FullAlwaysShown == {"mensualite", "endettementActuel", "capacite", "capaciteMensualite"}

RentalContainers ==
    {"locatifResults", "locatifResults2", "locatifResults3", "locatifResults4"}

TargetItems == {"itemPrixCible", "itemReductionCible"}

NegotiationContainers == {"reductionResults", "reductionResults2"}

\* C4 as claimed: after a Valid cycle the rental containers are visible iff
\* rent > 0, the target-price items are marked visible iff rent > 0 and
\* price >= targetPrice, the negotiation containers iff price > acceptablePrice
C4_VisibilityFromInputs ==
    FullValid =>
        LET p == Parse(inputs)
            m == Metrics(p)
        IN  /\ \A c \in RentalContainers : MarkedVisible(c) <=> Gt(p.loyer, Zero)
            /\ \A c \in TargetItems :
                   MarkedVisible(c) <=>
                       (Gt(p.loyer, Zero) /\ Ge(p.prix, m.prixCibleRendement))
            /\ \A c \in NegotiationContainers :
                   MarkedVisible(c) <=> Gt(p.prix, m.prixAcceptable)

\* C5: after a Valid cycle, a price equal to the acceptable price hides the
\* negotiation containers; with rent > 0 a price equal to the target price shows
\* the target-price items; an acceptable monthly payment <= 0 makes the
\* acceptable price 0 and shows the negotiation containers.
C5_Thresholds ==
    FullValid =>
        LET p == Parse(inputs)
            m == Metrics(p)
        IN  /\ p.prix = m.prixAcceptable =>
                   \A c \in NegotiationContainers : display[c] = "none"
            /\ Gt(p.loyer, Zero) /\ p.prix = m.prixCibleRendement =>
                   \A c \in TargetItems : display[c] = "flex"
            /\ Le(m.mensualiteCible, Zero) =>
                   /\ m.prixAcceptable = Zero
                   /\ \A c \in NegotiationContainers : display[c] = "block"

\* C5's case: a rental project whose price equals both thresholds
C5_Witness ==
    /\ FullValid
    /\ LET p == Parse(inputs)
           m == Metrics(p)
       IN  /\ Gt(p.loyer, Zero)
           /\ p.prix = m.prixAcceptable
           /\ p.prix = m.prixCibleRendement
           /\ display["reductionResults"] = "none"
           /\ display["itemPrixCible"] = "flex"

\* the simpler page shows a cycle on its current, valid inputs
SimpleValidShown ==
    /\ SimplePage
    /\ last = "timer"
    /\ ~SimpleIsInvalid(SimpleParse(inputs))

\* C6 as claimed: with rent = 0 and otherwise valid inputs, the project is not
\* a rental one, the rental containers are hidden, and cash flow, gross yield,
\* target price and target reduction are all 0
C6_ZeroFallbacks ==
    /\ FullValid /\ Parse(inputs).loyer = Zero =>
           LET m == Metrics(Parse(inputs))
           IN  /\ ~m.isRentalProject
               /\ \A c \in RentalContainers : display[c] = "none"
               /\ m.cashflow = Zero
               /\ m.rendementBrut = Zero
               /\ m.prixCibleRendement = Zero
               /\ m.reductionCible = Zero
    /\ SimpleValidShown /\ SimpleParse(inputs).loyer = Zero =>
           LET m == SimpleMetrics(SimpleParse(inputs))
           IN  /\ ~m.isRentalProject
               /\ \A c \in RentalContainers : display[c] = "none"
               /\ m.cashflowBrut = Zero
               /\ m.rendementBrut = Zero
               /\ m.prixCible = Zero

\* C6, amended: with rent = 0 and otherwise valid inputs, the project is not a
\* rental one, the rental containers are hidden, gross yield and target price
\* are 0; on the fuller page the cash flow is minus the monthly payment and the
\* target reduction is 100; on the simpler page the cash flow is 0 as well.
C6_RentZero ==
    /\ FullValid /\ Parse(inputs).loyer = Zero =>
           LET m == Metrics(Parse(inputs))
           IN  /\ ~m.isRentalProject
               /\ \A c \in RentalContainers : display[c] = "none"
               /\ m.cashflow = Neg(m.mensualiteProjet)
               /\ m.rendementBrut = Zero
               /\ m.prixCibleRendement = Zero
               /\ m.reductionCible = Num(100)
    /\ SimpleValidShown /\ SimpleParse(inputs).loyer = Zero =>
           LET m == SimpleMetrics(SimpleParse(inputs))
           IN  /\ ~m.isRentalProject
               /\ \A c \in RentalContainers : display[c] = "none"
               /\ m.cashflowBrut = Zero
               /\ m.rendementBrut = Zero
               /\ m.prixCible = Zero
               /\ outText["cashflowBrut"] = Currency(Zero)

\* C6's case: a Valid cycle of the fuller page with rent = 0
C6_Witness ==
    /\ FullValid
    /\ last = "input"
    /\ Parse(inputs).loyer = Zero
    /\ display["locatifResults"] = "none"

\* C7: when the fuller page is loaded again after a Valid cycle, the inputs and
\* the store are as before, the error stays hidden, the always-shown outputs
\* are computed, every output the new cycle writes has the text it had, and the
\* containers the cycle sets are as before.
C7_RoundTrip ==
    [][FullValid /\ last' = "reload" =>
           /\ inputs' = inputs
           /\ storage' = storage
           /\ errorDisplay' = "none"
           /\ \A o \in FullAlwaysShown : Computed(outText'[o])
           /\ \A o \in OutputNames : Computed(outText'[o]) => outText'[o] = outText[o]
           /\ \A c \in RentalContainers \cup NegotiationContainers :
                  display'[c] = display[c]
           /\ Gt(Parse(inputs).loyer, Zero) =>
                  \A c \in TargetItems : display'[c] = display[c]]_vars

\* C7's case: the page was loaded again over a store whose values are not
\* those of the markup, and shows a Valid cycle
C7_Witness ==
    /\ FullValid
    /\ last = "reload"
    /\ storage = inputs
    /\ inputs \notin HtmlInputs

\* C8 as claimed: after a cycle the always-shown outputs are all '...' or all
\* computed
C8_AtomicGate ==
    /\ FullPage =>
           \/ \A o \in FullAlwaysShown : outText[o] = Unknown
           \/ \A o \in FullAlwaysShown : Computed(outText[o])
    /\ SimplePage /\ errorDisplay # "" =>
           \/ \A o \in SimpleAlwaysShown : outText[o] = Unknown
           \/ \A o \in SimpleAlwaysShown : Computed(outText[o])

\* C8, amended: on the fuller page the gate is atomic. On the simpler page a
\* cycle either fails the gate on price, rate and term, and every output is
\* '...', or passes it, and then the monthly payment and the two capacity outputs
\* are computed, and the two debt-ratio outputs are computed when income and
\* current debt both parse and are '...' otherwise.
C8_TwoLevelGate ==
    /\ FullPage =>
           \/ errorDisplay = "block" /\ \A o \in OutputNames : outText[o] = Unknown
           \/ errorDisplay = "none" /\ \A o \in FullAlwaysShown : Computed(outText[o])
    /\ SimplePage /\ errorDisplay # "" =>
           LET p == SimpleParse(readInputs)
           IN  \/ /\ errorDisplay = "block"
                  /\ \A o \in SimpleOutputNames : outText[o] = Unknown
               \/ /\ errorDisplay = "none"
                  /\ \A o \in {"capaciteEmpruntPropre", "mensualiteProjet",
                               "capaciteMensualite"} :
                         Computed(outText[o]) /\ outText[o].k = "fin"
                  /\ \A o \in {"endettementPropre", "endettementTotal"} :
                         IF ~IsNaN(p.salaireActuel) /\ ~IsNaN(p.mensualitesActuelles)
                         THEN Computed(outText[o])
                         ELSE outText[o] = Unknown

\* C8's case: the simpler page after a cycle that passed the gate with an
\* income that does not parse
C8_Witness ==
    /\ SimplePage
    /\ errorDisplay = "none"
    /\ IsNaN(SimpleParse(readInputs).salaireActuel)
    /\ outText["endettementTotal"] = Unknown
    /\ Computed(outText["mensualiteProjet"])

C10_Debounce ==
    /\ [](Cardinality(timers) <= 1 /\ runsSince <= 1)
    /\ [][events' = events + 1 =>
              /\ \A t \in timers : t \notin timers'
              /\ Cardinality(timers') = 1]_vars
    /\ [][last' = "timer" => sinceInput >= Delay /\ readInputs' = inputs]_vars
    /\ \A k \in 1..MaxEvents :
           (events = k) ~>
               (events > k \/ (runsSince = 1 /\ readInputs = inputs /\ timers = {}))

\* C10's case: calculate has run once after the second or a later input event,
\* on inputs that are not those of the markup
C10_Witness ==
    /\ SimplePage
    /\ events >= 2
    /\ last = "timer"
    /\ runsSince = 1
    /\ readInputs = inputs
    /\ inputs \notin SimpleHtmlInputs

\* C11: on the fuller page, whenever a negotiation container is visible the
\* inputs are valid and the combined debt ratio, acceptable price and minimum
\* reduction outputs show the values of the current inputs; whenever a
\* target-price item is marked visible together with a rental container the
\* inputs are valid and the target price and target reduction outputs show the
\* values of the current inputs.
C11_NoStaleValue ==
    FullPage =>
        /\ (\E c \in NegotiationContainers : MarkedVisible(c)) =>
               /\ FullValid
               /\ LET m == Metrics(Parse(inputs))
                  IN  /\ outText["endettementTotal"] =
                             Percent(Mul(m.endettementTotalTaux, Num(100)), 1)
                      /\ outText["prixAcceptable"] = Currency(m.prixAcceptable)
                      /\ outText["reductionMinimum"] =
                             Percent(Max0(m.reductionMinimum), 1)
        /\ ((\E c \in TargetItems : MarkedVisible(c))
                /\ (\E c \in RentalContainers : MarkedVisible(c))) =>
               /\ FullValid
               /\ LET m == Metrics(Parse(inputs))
                  IN  /\ outText["prixCible"] = Currency(m.prixCibleRendement)
                      /\ outText["reductionCible"] = Percent(Max0(m.reductionCible), 1)

\* C11's case: after an input event the negotiation containers, the rental
\* containers and the target-price items are all visible, with computed texts
C11_Witness ==
    /\ FullValid
    /\ last = "input"
    /\ inputs \notin HtmlInputs
    /\ MarkedVisible("reductionResults")
    /\ MarkedVisible("locatifResults")
    /\ MarkedVisible("itemPrixCible")
    /\ Computed(outText["prixAcceptable"])
    /\ Computed(outText["prixCible"])

====
